---- MODULE Spec2Model ----
(***************************************************************************)
(* Model of load.py, the Alfred script filter that lists the pages of the   *)
(* configured Notion databases.  One behaviour is a succession of runs of   *)
(* the script (one process per launcher query) over a file system that      *)
(* persists between the runs (cache.json, the icons directory), a remote    *)
(* API whose data may change between two runs, and the background curl      *)
(* processes the runs leave behind.                                         *)
(***************************************************************************)
EXTENDS Integers, Sequences, FiniteSets, TLC

VARIABLES
    database_ids,       \* environ['database_ids'].split(',')
    notion,             \* remote data: database id -> chain of result pages
    cache_file,         \* cache.json: [exists, items]
    icons_dir_exists,   \* icons_dir.exists()
    icon_files,         \* the files in icons_dir (absolute path strings)
    curl,               \* the destinations some background curl is still writing
    pc,                 \* position of the current run
    refresh_icons,      \* '--refresh-icons' in sys.argv[1:] of the current run
    db_index,           \* position of main's loop in database_ids
    pagination_cursor,  \* local of talk_to_notion_api_and_create_alfred_items
    database_title,     \* local of talk_to_notion_api_and_create_alfred_items
    db_items,           \* alfred_items of talk_to_notion_api_and_create_alfred_items
    alfred_items,       \* alfred_items of main
    stdout,             \* what the current run wrote to standard output
    responses,          \* the query responses the current run received
    icon_checks,        \* the destination checks the current run made
    cache_at_start,     \* cache_file as it was when the current run started
    files_at_start,     \* icon_files as it was when the current run started
    unchanged,          \* the remote data is as the last completed run saw it
    last_status,        \* status code of the current run's latest response (0: none)
    landed              \* per destination: whether a downloader ever wrote it
                        \* ("never"), and if so whether a refresh run reached its
                        \* purge since ("purged") or not ("kept")

vars == <<database_ids, notion, cache_file, icons_dir_exists, icon_files, curl,
          pc, refresh_icons, db_index, pagination_cursor, database_title,
          db_items, alfred_items, stdout, responses, icon_checks,
          cache_at_start, files_at_start, unchanged, last_status, landed>>

(***************************************************************************)
(* Bounds of the model.                                                    *)
(***************************************************************************)
\* Longest chain of result pages the API serves for one database.
MaxPages == 3

(***************************************************************************)
(* The remote data the runs are tried on.                                  *)
(***************************************************************************)
None == "None"

DbIds == {"d1", "d2"}

\* The database object's 'title' rich-text array.
DatabaseTitleJson(db) ==
    IF db = "d1" THEN <<"Wo", "rk">> ELSE <<"Home">>

TitleProp(rich) == [name |-> "Name", type |-> "title", title |-> rich]
TagsProp == [name |-> "Tags", type |-> "multi_select", title |-> <<>>]

\* Page p1 of database d1: a file-hosted icon, the title in two rich-text runs.
PageP1 ==
    [id |-> "p1", url |-> <<"https", "://www.notion.so/p1">>,
     properties |-> <<TagsProp, TitleProp(<<"A", "B">>)>>,
     icon |-> [type |-> "file", url_path |-> <<"/s3/p1/icon", "png">>]]
\* Page p1 after its title was edited and its icon removed.
PageP1Edited ==
    [id |-> "p1", url |-> <<"https", "://www.notion.so/p1">>,
     properties |-> <<TagsProp, TitleProp(<<"C">>)>>,
     icon |-> [type |-> "none", url_path |-> <<>>]]
\* Page p2 of database d1: the same plain title as p1, an emoji icon.
PageP2 ==
    [id |-> "p2", url |-> <<"https", "://www.notion.so/p2">>,
     properties |-> <<TitleProp(<<"AB">>), TagsProp>>,
     icon |-> [type |-> "emoji", url_path |-> <<>>]]
\* Page p3 of database d2: an external-URL icon.
PageP3 ==
    [id |-> "p3", url |-> <<"http", "://notion.site/p3">>,
     properties |-> <<TitleProp(<<"D">>)>>,
     icon |-> [type |-> "external", url_path |-> <<"/img/p3", "jpg">>]]

\* The record lists a database can hold (page ids are unique in a database).
Contents(db) ==
    IF db = "d1"
    THEN {<<>>, <<PageP1>>, <<PageP1Edited>>, <<PageP2>>,
          <<PageP1, PageP2>>, <<PageP2, PageP1Edited>>}
    ELSE {<<PageP3>>}

\* Longest chain of pages a database is served in.
ChainLengths(db) == IF db = "d1" THEN 1..MaxPages ELSE {1}

\* The ways the API can cut a record list into a chain of n pages: every page
\* but the last reports has_more with the cursor of the next page, and a page
\* may hold no record at all.
RECURSIVE Chains(_, _, _)
Chains(records, n, first) ==
    IF n = 1
    THEN {<<[results |-> records, has_more |-> FALSE, next_cursor |-> None]>>}
    ELSE UNION {
           {<<[results |-> SubSeq(records, 1, k), has_more |-> TRUE,
               next_cursor |-> first]>> \o rest :
              rest \in Chains(SubSeq(records, k + 1, Len(records)), n - 1, first + 1)} :
           k \in 0..Len(records)}

RemoteChains(db) ==
    UNION {Chains(records, n, 1) : records \in Contents(db), n \in ChainLengths(db)}

\* The page the API serves for a start_cursor: 0 is the first page, the cursor
\* a page returned is the page after it.
ServedPage(db, cursor) == notion[db][cursor + 1]

DatabaseIdLists == {<<"d1">>, <<"d1", "d2">>, <<"d2", "d1">>, <<"d1", "d1">>}

(***************************************************************************)
(* Pure functions of load.py.                                              *)
(***************************************************************************)
RECURSIVE to_plain_text(_)
to_plain_text(rich_texts) ==
    IF rich_texts = <<>> THEN ""
    ELSE Head(rich_texts) \o to_plain_text(Tail(rich_texts))

RECURSIVE find_title_property_name(_)
find_title_property_name(properties) ==
    IF properties = <<>> THEN None
    ELSE IF Head(properties).type = "title" THEN Head(properties).name
    ELSE find_title_property_name(Tail(properties))

\* notion_page_dict['properties'][title_property_name]['title']
RECURSIVE TitleOfProperty(_, _)
TitleOfProperty(properties, name) ==
    IF Head(properties).name = name THEN Head(properties).title
    ELSE TitleOfProperty(Tail(properties), name)

\* re.sub(r'^https', 'notion', url)
PageUrl(url) ==
    IF Head(url) = "https" THEN <<"notion">> \o Tail(url) ELSE url

\* icons_dir.joinpath(f'{page_id}.{file_extension}'), the extension being the
\* text after the last dot of the URL's path.
LocalIconPath(page_id, icon_json) ==
    "icons/" \o page_id \o "." \o icon_json.url_path[Len(icon_json.url_path)]

\* Mutant: an external icon, which has a URL too, is taken for a hosted file.
HasIconUrl(icon_json) == icon_json.type \in {"file", "external"}

\* 'file' in icon_json
HasFileIcon(icon_json) == icon_json.type = "file"

\* Mutant: curl is run without the test of line 177.
DownloadWithoutExistsTest(page_id, icon_json, files) ==
    IF ~HasFileIcon(icon_json)
    THEN [path |-> None, checked |-> FALSE, launched |-> FALSE]
    ELSE [path |-> LocalIconPath(page_id, icon_json), checked |-> TRUE,
          launched |-> TRUE]

\* download_icon_and_return_local_path against the files now in icons_dir: the
\* path it returns, whether it consulted the directory, whether it ran curl.
download_icon_and_return_local_path(page_id, icon_json, files) ==
    IF icon_json.type = "none"
    THEN [path |-> None, checked |-> FALSE, launched |-> FALSE]
    ELSE IF ~HasFileIcon(icon_json)
    THEN [path |-> None, checked |-> FALSE, launched |-> FALSE]
    ELSE LET local_icon_path == LocalIconPath(page_id, icon_json)
         IN  [path |-> local_icon_path, checked |-> TRUE,
              launched |-> local_icon_path \notin files]

notion_page_to_alfred_item(notion_page_dict, title_property_name, title, files) ==
    LET page_title ==
            to_plain_text(TitleOfProperty(notion_page_dict.properties,
                                          title_property_name))
    IN  [uid |-> notion_page_dict.id,
         title |-> page_title,
         subtitle |-> title,
         arg |-> PageUrl(notion_page_dict.url),
         icon_path |-> download_icon_and_return_local_path(
                           notion_page_dict.id, notion_page_dict.icon, files).path,
         autocomplete |-> page_title]

CachedPageIds == {cache_file.items[i].uid : i \in 1..Len(cache_file.items)}

\* Mutant: the items already seen are told by identifier.
DifferenceByUid(items) ==
    IF ~cache_file.exists THEN items
    ELSE SelectSeq(items, LAMBDA item : item.uid \notin CachedPageIds)

CachedPageTitles == {cache_file.items[i].title : i \in 1..Len(cache_file.items)}

difference_with_cache(items) ==
    IF ~cache_file.exists THEN items
    ELSE SelectSeq(items, LAMBDA item : item.title \notin CachedPageTitles)

AllIconPaths ==
    {LocalIconPath(p.id, p.icon) :
        p \in {q \in {PageP1, PageP1Edited, PageP2, PageP3} : HasFileIcon(q.icon)}}

StatusCodes == {200, 429}

\* Mutant: only a server error ends the run.
ExitsOnServerError(status_code) == status_code >= 500

\* The test of lines 62 and 93.
ExitsWithError(status_code) == status_code # 200

\* os.system('/usr/bin/curl -o "path" "url" &'): one more curl writing to path.
Launch(running, path) == running \cup {path}

\* The for loop over one page of results (lines 74-81): the items appended, the
\* downloaders launched and the destination checks made, record by record.
\* `seen` is what is known of each destination when the page is converted.
RECURSIVE ConvertPages(_, _, _, _, _, _)
ConvertPages(notion_pages, title_property_name, title, files, seen, acc) ==
    IF notion_pages = <<>> THEN acc
    ELSE LET page_dict == Head(notion_pages)
             icon == download_icon_and_return_local_path(
                         page_dict.id, page_dict.icon, files)
             item == notion_page_to_alfred_item(
                         page_dict, title_property_name, title, files)
             n    == acc.count + 1
         IN  ConvertPages(Tail(notion_pages), title_property_name, title,
                 files, seen,
                 [items  |-> Append(acc.items, item),
                  count  |-> n,
                  curl   |-> IF icon.launched
                             THEN Launch(acc.curl, icon.path) ELSE acc.curl,
                  checks |-> IF icon.checked \/ icon.launched
                             THEN Append(acc.checks,
                                         [record |-> n, path |-> icon.path,
                                          existed |-> icon.path \in files,
                                          launched |-> icon.launched,
                                          landed |-> IF icon.path \in DOMAIN seen
                                                     THEN seen[icon.path]
                                                     ELSE "never"])
                             ELSE acc.checks])

\* All the records the responses of the current run carried, in order.
RECURSIVE Records(_)
Records(resps) ==
    IF resps = <<>> THEN <<>>
    ELSE Head(resps).results \o Records(Tail(resps))

(***************************************************************************)
(* The state before the first run: no cache directory yet.                 *)
(***************************************************************************)
Init ==
    /\ database_ids \in DatabaseIdLists
    /\ \E c1 \in RemoteChains("d1"), c2 \in RemoteChains("d2") :
          notion = [db \in DbIds |-> IF db = "d1" THEN c1 ELSE c2]
    /\ cache_file = [exists |-> FALSE, items |-> <<>>]
    /\ icons_dir_exists = FALSE
    /\ icon_files = {}
    /\ curl = {}
    /\ pc = "idle"
    /\ refresh_icons = FALSE
    /\ db_index = 1
    /\ pagination_cursor = 0
    /\ database_title = ""
    /\ db_items = <<>>
    /\ alfred_items = <<>>
    /\ stdout = <<>>
    /\ responses = <<>>
    /\ icon_checks = <<>>
    /\ cache_at_start = cache_file
    /\ files_at_start = {}
    /\ unchanged = FALSE
    /\ last_status = 0
    /\ landed = [path \in AllIconPaths |-> "never"]

(***************************************************************************)
(* A run of the script.                                                    *)
(***************************************************************************)
\* A new process: module level (lines 16-20) up to the call of main.
StartRun ==
    /\ pc = "idle"
    /\ \E refresh \in BOOLEAN : refresh_icons' = refresh
    /\ pc' = "delete_icon_cache"
    /\ cache_at_start' = cache_file
    /\ files_at_start' = icon_files
    /\ UNCHANGED <<database_ids, notion, cache_file, icons_dir_exists,
                   icon_files, curl, db_index, pagination_cursor,
                   database_title, db_items, alfred_items, stdout, responses,
                   icon_checks, unchanged, last_status, landed>>

\* Mutant: the test for the directory is inverted.
PurgesMissingDirectory == refresh_icons /\ ~icons_dir_exists

\* Whether delete_icon_cache_if_necessary removes the icons directory.
PurgesIcons == refresh_icons /\ icons_dir_exists

delete_icon_cache_if_necessary ==
    /\ pc = "delete_icon_cache"
    /\ IF PurgesIcons
       THEN /\ icon_files' = {}
            /\ icons_dir_exists' = FALSE
       ELSE UNCHANGED <<icon_files, icons_dir_exists>>
    /\ landed' = IF refresh_icons
                 THEN [path \in AllIconPaths |->
                          IF landed[path] = "kept" THEN "purged" ELSE landed[path]]
                 ELSE landed
    /\ pc' = "make_dirs"
    /\ UNCHANGED <<database_ids, notion, cache_file, curl, refresh_icons,
                   db_index, pagination_cursor, database_title, db_items,
                   alfred_items, stdout, responses, icon_checks,
                   cache_at_start,
                   files_at_start, unchanged, last_status>>

make_sure_the_cache_directories_exist ==
    /\ pc = "make_dirs"
    /\ icons_dir_exists' = TRUE
    /\ pc' = "retrieve_title"
    /\ UNCHANGED <<database_ids, notion, cache_file, icon_files, curl,
                   refresh_icons, db_index, pagination_cursor, database_title,
                   db_items, alfred_items, stdout, responses, icon_checks,
                   cache_at_start,
                   files_at_start, unchanged, last_status, landed>>

\* The first request of an iteration of the while loop (line 58).
retrieve_database_title ==
    /\ pc = "retrieve_title"
    /\ \E status_code \in StatusCodes :
          /\ last_status' = status_code
          /\ IF ExitsWithError(status_code)
             THEN /\ pc' = "error"
                  /\ UNCHANGED database_title
             ELSE /\ pc' = "query"
                  /\ database_title' =
                        to_plain_text(DatabaseTitleJson(database_ids[db_index]))
    /\ UNCHANGED <<database_ids, notion, cache_file, icons_dir_exists,
                   icon_files, curl, refresh_icons, db_index,
                   pagination_cursor, db_items, alfred_items, stdout,
                   responses, icon_checks, cache_at_start,
                   files_at_start, unchanged, landed>>

\* Mutant: the cursor of the response is not carried forward.
KeepCursor(cursor, response_json) == cursor

\* What `pagination_cursor` is after a response that reports more pages.
NextCursor(cursor, response_json) == response_json.next_cursor

\* Whether the while loop ends after this response (lines 68 and 83).
Breaks(response_json) ==
    Len(response_json.results) = 0 \/ ~response_json.has_more

\* Mutant: the items of a database are put before those collected so far.
ExtendFront(collected, items) == items \o collected

\* main's list after the items of one database were collected (line 36).
Extend(collected, items) == collected \o items

\* Leaving the while loop: line 87, then main's loop moves on (lines 35-38).
ReturnItems(items) ==
    /\ alfred_items' = Extend(alfred_items, items)
    /\ db_items' = <<>>
    /\ IF db_index < Len(database_ids)
       THEN /\ db_index' = db_index + 1
            /\ pagination_cursor' = 0
            /\ pc' = "retrieve_title"
       ELSE /\ pc' = "write_stdout"
            /\ UNCHANGED <<db_index, pagination_cursor>>

\* The rest of an iteration of the while loop (lines 60-85).
query_database ==
    /\ pc = "query"
    /\ \E status_code \in StatusCodes :
          /\ last_status' = status_code
          /\ IF ExitsWithError(status_code)
             THEN /\ pc' = "error"
                  /\ UNCHANGED <<curl, db_index, pagination_cursor, db_items,
                                 alfred_items, responses, icon_checks>>
             ELSE LET database_id == database_ids[db_index]
                      response_json == ServedPage(database_id, pagination_cursor)
                      notion_pages == response_json.results
                      received == [position |-> db_index,
                                   database_id |-> database_id,
                                   start_cursor |-> pagination_cursor,
                                   results |-> notion_pages,
                                   has_more |-> response_json.has_more,
                                   next_cursor |-> response_json.next_cursor]
                  IN  /\ responses' = Append(responses, received)
                      /\ IF Len(notion_pages) = 0
                         THEN /\ ReturnItems(db_items)
                              /\ UNCHANGED <<curl, icon_checks>>
                         ELSE LET title_property_name ==
                                      find_title_property_name(
                                          notion_pages[1].properties)
                                  done ==
                                      ConvertPages(notion_pages,
                                          title_property_name, database_title,
                                          icon_files, landed,
                                          [items |-> db_items,
                                           count |-> Len(Records(responses)),
                                           curl |-> curl,
                                           checks |-> icon_checks])
                              IN  IF title_property_name = None
                                  THEN /\ pc' = "error"
                                       /\ UNCHANGED <<curl, db_index,
                                             pagination_cursor, db_items,
                                             alfred_items, icon_checks>>
                                  ELSE /\ curl' = done.curl
                                       /\ icon_checks' = done.checks
                                       /\ IF Breaks(response_json)
                                          THEN ReturnItems(done.items)
                                          ELSE /\ db_items' = done.items
                                               /\ pagination_cursor' =
                                                     NextCursor(pagination_cursor,
                                                                response_json)
                                               /\ pc' = "retrieve_title"
                                               /\ UNCHANGED <<db_index,
                                                              alfred_items>>
    /\ UNCHANGED <<database_ids, notion, cache_file, icons_dir_exists,
                   icon_files, refresh_icons, database_title, stdout,
                   cache_at_start,
                   files_at_start, unchanged, landed>>

\* Line 38.
write_alfred_items_to_stdout ==
    /\ pc = "write_stdout"
    /\ stdout' = Append(stdout, [items |-> difference_with_cache(alfred_items)])
    /\ pc' = "update_cache"
    /\ UNCHANGED <<database_ids, notion, cache_file, icons_dir_exists,
                   icon_files, curl, refresh_icons, db_index,
                   pagination_cursor, database_title, db_items, alfred_items,
                   responses, icon_checks, cache_at_start,
                   files_at_start, unchanged,
                   last_status, landed>>

\* Mutant: only the items just printed are cached.
UpdatedCachePrintedOnly(old, items) ==
    [exists |-> TRUE, items |-> difference_with_cache(items)]

\* Mutant: the file is appended to.
UpdatedCacheAppended(old, items) ==
    [exists |-> TRUE, items |-> old.items \o items]

\* What cache.json holds after update_cache_file.
UpdatedCache(old, items) == [exists |-> TRUE, items |-> items]

\* Line 39, and the end of main.
update_cache_file ==
    /\ pc = "update_cache"
    /\ cache_file' = UpdatedCache(cache_file, alfred_items)
    /\ pc' = "done"
    /\ UNCHANGED <<database_ids, notion, icons_dir_exists, icon_files, curl,
                   refresh_icons, db_index, pagination_cursor, database_title,
                   db_items, alfred_items, stdout, responses, icon_checks,
                   cache_at_start,
                   files_at_start, unchanged, last_status, landed>>

\* The process is gone (sys.exit, or the end of main) and its memory with it:
\* the launcher may start the next one.
ProcessExits ==
    /\ pc \in {"done", "error"}
    /\ unchanged' = IF pc = "done" THEN TRUE ELSE unchanged
    /\ pc' = "idle"
    /\ refresh_icons' = FALSE
    /\ db_index' = 1
    /\ pagination_cursor' = 0
    /\ database_title' = ""
    /\ db_items' = <<>>
    /\ alfred_items' = <<>>
    /\ stdout' = <<>>
    /\ responses' = <<>>
    /\ icon_checks' = <<>>
    /\ cache_at_start' = cache_file
    /\ files_at_start' = {}
    /\ last_status' = 0
    /\ UNCHANGED <<database_ids, notion, cache_file, icons_dir_exists,
                   icon_files, curl, landed>>

(***************************************************************************)
(* The environment.                                                        *)
(***************************************************************************)
\* A curl process launched by line 181 ends: it wrote its destination, or it
\* failed (no network, or no directory to write into).  Runs may have launched
\* several for one destination, so others may still be running.
DownloadEnds ==
    \E path \in curl :
       /\ \E last \in BOOLEAN :
             curl' = IF last THEN curl \ {path} ELSE curl
       /\ \E ok \in BOOLEAN :
             IF ok /\ icons_dir_exists
             THEN /\ icon_files' = icon_files \cup {path}
                  /\ landed' = [landed EXCEPT ![path] = "kept"]
             ELSE UNCHANGED <<icon_files, landed>>
       /\ UNCHANGED <<database_ids, notion, cache_file, icons_dir_exists, pc,
                      refresh_icons, db_index, pagination_cursor,
                      database_title, db_items, alfred_items, stdout,
                      responses, icon_checks, cache_at_start,
                   files_at_start, unchanged,
                      last_status>>

\* The workspace is edited between two runs.
RemoteChanges ==
    /\ pc = "idle"
    /\ \E db \in DbIds : \E chain \in RemoteChains(db) :
          /\ chain # notion[db]
          /\ notion' = [notion EXCEPT ![db] = chain]
    /\ unchanged' = FALSE
    /\ UNCHANGED <<database_ids, cache_file, icons_dir_exists, icon_files,
                   curl, pc, refresh_icons, db_index, pagination_cursor,
                   database_title, db_items, alfred_items, stdout, responses,
                   icon_checks, cache_at_start,
                   files_at_start, last_status, landed>>

Next ==
    \/ StartRun
    \/ delete_icon_cache_if_necessary
    \/ make_sure_the_cache_directories_exist
    \/ retrieve_database_title
    \/ query_database
    \/ write_alfred_items_to_stdout
    \/ update_cache_file
    \/ ProcessExits
    \/ DownloadEnds
    \/ RemoteChanges

Spec == Init /\ [][Next]_vars

(***************************************************************************)
(* Properties of a run.                                                    *)
(***************************************************************************)
\* Every item the current run collected so far, main's and the loop's.
Collected == alfred_items \o db_items

\* The run is past its last request.
Completed == pc \in {"write_stdout", "update_cache", "done"}

\* What the run printed, once it printed.
Printed == stdout[1].items

TitlesOf(items) == {items[i].title : i \in 1..Len(items)}
UidsOf(items) == {items[i].uid : i \in 1..Len(items)}

\* The items of a list whose title is none of `titles`, in their order.
RECURSIVE WithoutTitles(_, _)
WithoutTitles(items, titles) ==
    IF items = <<>> THEN <<>>
    ELSE IF Head(items).title \in titles
         THEN WithoutTitles(Tail(items), titles)
         ELSE <<Head(items)>> \o WithoutTitles(Tail(items), titles)

\* The response stops the pagination of its database.
Stops(r) == Len(r.results) = 0 \/ ~r.has_more

\* The responses the run received for the k-th configured database.
ResponsesAt(k) == {i \in 1..Len(responses) : responses[i].position = k}

\* C1: when a run has collected its items, there is exactly one item per
\* record the API returned, the i-th item carrying the i-th record's id, in
\* the order of the records in their page, of the pages as fetched and of the
\* databases as configured.
C1_OneItemPerRecord ==
    Completed =>
        LET recs == Records(responses)
        IN  /\ Len(alfred_items) = Len(recs)
            /\ \A i \in 1..Len(recs) : alfred_items[i].uid = recs[i].id
            /\ \A i \in 1..Len(responses) :
                  /\ responses[i].database_id = database_ids[responses[i].position]
                  /\ i > 1 => responses[i - 1].position <= responses[i].position
            /\ \A k \in 1..Len(database_ids) : ResponsesAt(k) # {}

C1_Witness ==
    /\ pc = "done"
    /\ database_ids = <<"d2", "d1">>
    /\ Len(responses) = 3
    /\ Len(responses[2].results) = 1
    /\ Len(responses[3].results) = 1
    /\ Len(alfred_items) = 3

\* C2: a run that follows a completed run, with the remote data as that run
\* saw it and the cache file as it left it, prints an empty items array; so
\* does every further such run.
C2_RerunPrintsNothing ==
    (pc \in {"update_cache", "done"} /\ unchanged) => stdout = <<[items |-> <<>>]>>

C2_Witness ==
    /\ pc = "done"
    /\ unchanged
    /\ Len(alfred_items) >= 2
    /\ stdout = <<[items |-> <<>>]>>

\* C3: with a cache file, the printed items are the collected items whose
\* title is no cached title, in collected order, whatever their identifiers.
C3_PrintedAreNewTitles ==
    (pc \in {"update_cache", "done"} /\ cache_at_start.exists) =>
        stdout = <<[items |-> WithoutTitles(alfred_items,
                                            TitlesOf(cache_at_start.items))]>>

C3_Witness ==
    /\ pc = "done"
    /\ cache_at_start.exists
    /\ \E i, j \in 1..Len(alfred_items) :
          /\ alfred_items[i].title \in TitlesOf(cache_at_start.items)
          /\ alfred_items[i].uid \notin UidsOf(cache_at_start.items)
          /\ alfred_items[i].uid \notin UidsOf(Printed)
          /\ alfred_items[j].uid \in UidsOf(cache_at_start.items)
          /\ alfred_items[j].title \notin TitlesOf(cache_at_start.items)
          /\ alfred_items[j].uid \in UidsOf(Printed)

\* C4: a response with a status other than 200 ends the run in the error exit
\* with nothing on standard output, and a run writes to standard output only
\* after the requests of every configured database succeeded.
C4_NoPartialOutput ==
    /\ last_status \notin {0, 200} => pc = "error"
    /\ pc = "error" => stdout = <<>>
    /\ stdout # <<>> =>
          /\ last_status = 200
          /\ \A k \in 1..Len(database_ids) :
                \E i \in ResponsesAt(k) : Stops(responses[i])

C4_Witness ==
    /\ pc = "error"
    /\ last_status = 429
    /\ Len(responses) = 2
    /\ db_index = 2
    /\ stdout = <<>>

\* C5 as claimed: in a run with the refresh flag, past the purge, no file of
\* the start of the run is left, and every destination check finds its file
\* absent and launches a downloader.
C5_Original ==
    (refresh_icons /\ pc \notin {"idle", "delete_icon_cache"}) =>
        /\ \A f \in files_at_start : f \in icon_files => landed[f] = "kept"
        /\ \A i \in 1..Len(icon_checks) :
              ~icon_checks[i].existed /\ icon_checks[i].launched

\* C5, amended: in a run with the refresh flag, past the purge, every file of
\* the start of the run is gone unless a downloader wrote it again since, and
\* every destination check finds its file absent and launches a downloader
\* unless a downloader wrote that file after the purge.
C5_RefreshPurgesFirst ==
    (refresh_icons /\ pc \notin {"idle", "delete_icon_cache"}) =>
        /\ \A f \in icon_files : landed[f] = "kept"
        /\ \A i \in 1..Len(icon_checks) :
              /\ icon_checks[i].existed => icon_checks[i].landed = "kept"
              /\ ~icon_checks[i].existed => icon_checks[i].launched

C5_Witness ==
    /\ refresh_icons
    /\ pc = "done"
    /\ files_at_start # {}
    /\ \E i \in 1..Len(icon_checks) :
          /\ icon_checks[i].path \in files_at_start
          /\ ~icon_checks[i].existed
          /\ icon_checks[i].launched

\* C6: after a completed run the cache file holds the items the run
\* collected, all of them and in their order, and nothing else; what the run
\* printed was told from the cache file as it was before.
C6_CacheIsCurrentSet ==
    pc = "done" =>
        /\ cache_file.exists
        /\ Len(cache_file.items) = Len(Records(responses))
        /\ \A i \in 1..Len(cache_file.items) :
              /\ cache_file.items[i] = alfred_items[i]
              /\ cache_file.items[i].uid = Records(responses)[i].id
        /\ Printed = IF cache_at_start.exists
                     THEN WithoutTitles(alfred_items,
                                        TitlesOf(cache_at_start.items))
                     ELSE alfred_items

C6_Witness ==
    /\ pc = "done"
    /\ cache_at_start.exists
    /\ Len(Printed) = 1
    /\ Len(cache_file.items) = 2
    /\ \E i \in 1..Len(cache_at_start.items) :
          cache_at_start.items[i].uid \notin UidsOf(cache_file.items)

\* C7: the item of a record whose icon is not file-hosted has no icon path,
\* and no destination was checked and no downloader launched for it; the item
\* of a record with a file-hosted icon has an icon path.
C7_OnlyFileIconsHavePaths ==
    LET recs == Records(responses)
    IN  /\ Len(Collected) = Len(recs)
        /\ \A i \in 1..Len(recs) :
              IF recs[i].icon.type = "file"
              THEN Collected[i].icon_path # None
              ELSE /\ Collected[i].icon_path = None
                   /\ \A c \in 1..Len(icon_checks) : icon_checks[c].record # i

C7_Witness ==
    /\ pc = "done"
    /\ {Records(responses)[i].icon.type : i \in 1..Len(Records(responses))}
          = {"file", "emoji", "external"}
    /\ Len(icon_checks) = 1

\* C8: the first query of a database carries cursor 0 and every later one the
\* cursor of the response before it; a database is queried again only after a
\* response with records that reports more pages, and no more after any
\* other; no page is queried twice, so the queries of a database are at most
\* the pages of its chain.
C8_Pagination ==
    /\ \A i \in 1..Len(responses) :
          IF i > 1 /\ responses[i - 1].position = responses[i].position
          THEN /\ ~Stops(responses[i - 1])
               /\ responses[i].start_cursor = responses[i - 1].next_cursor
          ELSE /\ responses[i].start_cursor = 0
               /\ i > 1 => Stops(responses[i - 1])
    /\ (responses # <<>> /\ Stops(responses[Len(responses)])) =>
          \/ Completed
          \/ db_index > responses[Len(responses)].position
    /\ (responses # <<>> /\ ~Stops(responses[Len(responses)])) =>
          /\ pc \in {"retrieve_title", "query", "error"}
          /\ db_index = responses[Len(responses)].position
          /\ pagination_cursor = responses[Len(responses)].next_cursor
    /\ \A k \in 1..Len(database_ids) :
          /\ \A i, j \in ResponsesAt(k) :
                responses[i].start_cursor = responses[j].start_cursor => i = j
          /\ Cardinality(ResponsesAt(k)) <= Len(notion[database_ids[k]])

C8_Witness ==
    /\ pc = "done"
    /\ \E i \in 1..Len(responses) :
          /\ responses[i].start_cursor # 0
          /\ responses[i].has_more
          /\ Len(responses[i].results) = 0
          /\ Len(notion[responses[i].database_id]) > i

\* C9 as claimed: a downloader is launched exactly when the destination is
\* absent at the check, the path returned is the same either way, and once a
\* downloader has written a destination every later check finds it.
C9_Original ==
    \A c \in 1..Len(icon_checks) :
        /\ icon_checks[c].launched <=> ~icon_checks[c].existed
        /\ Collected[icon_checks[c].record].icon_path = icon_checks[c].path
        /\ icon_checks[c].landed # "never" =>
              icon_checks[c].existed /\ ~icon_checks[c].launched

\* C9, amended: a downloader is launched exactly when the destination (named
\* by the record's id and the extension of the icon's URL) is absent at the
\* check, the path returned is the same either way, and once a downloader has
\* written a destination every later check finds it, as long as no run with
\* the refresh flag has purged the icons since.
C9_IconMaterialization ==
    LET recs == Records(responses)
    IN  /\ \A c \in 1..Len(icon_checks) :
              LET check == icon_checks[c]
              IN  /\ check.launched <=> ~check.existed
                  /\ check.path = "icons/" \o recs[check.record].id \o "." \o
                                  Head(Tail(recs[check.record].icon.url_path))
                  /\ Collected[check.record].icon_path = check.path
                  /\ check.landed = "kept" => check.existed /\ ~check.launched
        /\ \A i \in 1..Len(Collected) :
              recs[i].icon.type = "file" =>
                 Cardinality({c \in 1..Len(icon_checks) :
                                 icon_checks[c].record = i}) = 1

C9_Witness ==
    /\ pc = "done"
    /\ ~refresh_icons
    /\ \E c \in 1..Len(icon_checks) :
          /\ icon_checks[c].landed = "kept"
          /\ icon_checks[c].existed
          /\ ~icon_checks[c].launched

\* C10: a run that ends in the error exit leaves the cache file as it was
\* when the run started; the file changes only in a run that is done, after
\* every request succeeded and the difference was printed.
C10_ErrorKeepsCache ==
    /\ pc = "error" => cache_file = cache_at_start
    /\ cache_file # cache_at_start =>
          /\ pc = "done"
          /\ last_status = 200
          /\ stdout # <<>>

C10_Witness ==
    /\ pc = "error"
    /\ cache_at_start.exists
    /\ cache_file = cache_at_start
    /\ Len(responses) >= 1
    /\ UidsOf(Collected) # UidsOf(cache_file.items)

====
